---- MODULE Spec2Model ----
(***************************************************************************)
(* Model of the sport activity monitor (src/activity_monitor.py).          *)
(*                                                                         *)
(* Text is modelled as a sequence of one-character strings, so that        *)
(* trimming, splitting on ':' and the numeric and date parsers are         *)
(* computed character by character as Python computes them.  Numbers are   *)
(* exact rationals n/d plus the float specials nan, inf and -inf.  The     *)
(* whitespace alphabet is the blank; digit grouping with '_' and non-ASCII *)
(* digits are outside the modelled alphabet.                               *)
(***************************************************************************)
EXTENDS Integers, Sequences, FiniteSets, TLC

VARIABLES
    store,       \* rows of table activities, in insertion (id) order
    nextId,      \* the AUTOINCREMENT counter: id given to the next insert
    filterVars,  \* the five filter StringVars of the browse tab
    tree,        \* rows shown in the Treeview, top to bottom
    selection,   \* indexes of the Treeview rows the user has selected
    status,      \* the record count written in the status bar
    tab,         \* the selected notebook tab
    dialog,      \* the message boxes shown by the last operation
    form,        \* the six StringVars of the add form
    op,          \* the last operation called
    args,        \* its arguments
    ret          \* its outcome: the value returned, drawn or written, or the
                 \* exception raised

vars == <<store, nextId, filterVars, tree, selection, status, tab, dialog,
          form, op, args, ret>>

----------------------------------------------------------------------------
(* Characters and text                                                     *)

DigitChars == <<"0", "1", "2", "3", "4", "5", "6", "7", "8", "9">>

UpperChars == <<"A", "B", "C", "D", "E", "F", "G", "H", "I", "J", "K", "L", "M",
                "N", "O", "P", "Q", "R", "S", "T", "U", "V", "W", "X", "Y", "Z">>

LowerChars == <<"a", "b", "c", "d", "e", "f", "g", "h", "i", "j", "k", "l", "m",
                "n", "o", "p", "q", "r", "s", "t", "u", "v", "w", "x", "y", "z">>

IsDigit(c) == \E i \in 1..10 : DigitChars[i] = c

DigitVal(c) == (CHOOSE i \in 1..10 : DigitChars[i] = c) - 1

IsSpace(c) == c = " "

\* str.lower() on one character
LowerChar(c) ==
    IF \E i \in 1..26 : UpperChars[i] = c
    THEN LowerChars[CHOOSE i \in 1..26 : UpperChars[i] = c]
    ELSE c

\* str.lower()
Lower(s) == [i \in 1..Len(s) |-> LowerChar(s[i])]

\* The code point of an ASCII character: SQLite compares TEXT bytewise.
Ord(c) ==
    CASE c = " " -> 32
      [] c = "+" -> 43
      [] c = "-" -> 45
      [] c = "." -> 46
      [] c = "/" -> 47
      [] IsDigit(c) -> 48 + DigitVal(c)
      [] c = ":" -> 58
      [] \E i \in 1..26 : UpperChars[i] = c ->
             64 + (CHOOSE i \in 1..26 : UpperChars[i] = c)
      [] \E i \in 1..26 : LowerChars[i] = c ->
             96 + (CHOOSE i \in 1..26 : LowerChars[i] = c)

\* str.strip(): drop leading and trailing whitespace
Strip(s) ==
    LET idx == {i \in 1..Len(s) : ~IsSpace(s[i])}
    IN  IF idx = {} THEN <<>>
        ELSE LET lo == CHOOSE i \in idx : \A j \in idx : i <= j
                 hi == CHOOSE i \in idx : \A j \in idx : j <= i
             IN  SubSeq(s, lo, hi)

\* str.split(":"): the segments between the colons, at least one
RECURSIVE SplitColon(_)
SplitColon(s) ==
    LET idx == {i \in 1..Len(s) : s[i] = ":"}
    IN  IF idx = {} THEN <<s>>
        ELSE LET p == CHOOSE i \in idx : \A j \in idx : i <= j
             IN  <<SubSeq(s, 1, p - 1)>> \o SplitColon(SubSeq(s, p + 1, Len(s)))

AllDigits(s) == \A i \in 1..Len(s) : IsDigit(s[i])

\* value of a run of decimal digits (0 for the empty run)
RECURSIVE DigitsVal(_)
DigitsVal(s) ==
    IF s = <<>> THEN 0
    ELSE 10 * DigitsVal(SubSeq(s, 1, Len(s) - 1)) + DigitVal(s[Len(s)])

RECURSIVE Pow10(_)
Pow10(k) == IF k = 0 THEN 1 ELSE 10 * Pow10(k - 1)

\* decimal digits of a natural number
RECURSIVE NatToStr(_)
NatToStr(n) ==
    IF n < 10 THEN <<DigitChars[n + 1]>>
    ELSE NatToStr(n \div 10) \o <<DigitChars[(n % 10) + 1]>>

\* format(n, "02d")
Fmt02d(n) ==
    IF n < 0 THEN <<"-">> \o NatToStr(-n)
    ELSE IF n < 10 THEN <<"0">> \o NatToStr(n)
    ELSE NatToStr(n)

----------------------------------------------------------------------------
(* Numbers: exact rationals and the float specials                         *)

Abs(x) == IF x < 0 THEN -x ELSE x

RECURSIVE Gcd(_, _)
Gcd(a, b) == IF b = 0 THEN a ELSE Gcd(b, a % b)

\* the rational n/d in lowest terms, d > 0
Rat(n, d) ==
    LET g == Gcd(Abs(n), d)
    IN  [k |-> "fin", n |-> n \div g, d |-> d \div g]

NaN    == [k |-> "nan", n |-> 0, d |-> 1]
PosInf == [k |-> "inf", n |-> 1, d |-> 1]
NegInf == [k |-> "inf", n |-> -1, d |-> 1]

FromInt(i) == Rat(i, 1)

IsNaN(x) == x.k = "nan"
IsFin(x) == x.k = "fin"

\* float comparison: every comparison with nan is false
NumLT(x, y) ==
    IF IsNaN(x) \/ IsNaN(y) THEN FALSE
    ELSE IF IsFin(x) /\ IsFin(y) THEN x.n * y.d < y.n * x.d
    ELSE IF IsFin(x) THEN y.n > 0
    ELSE IF IsFin(y) THEN x.n < 0
    ELSE x.n < y.n

NumEQ(x, y) ==
    IF IsNaN(x) \/ IsNaN(y) THEN FALSE
    ELSE IF IsFin(x) /\ IsFin(y) THEN x.n * y.d = y.n * x.d
    ELSE x.k = y.k /\ x.n = y.n

\* NumLE with "<" written for "<="
NumLE_strict(x, y) == NumLT(x, y)

NumLE(x, y) == NumLT(x, y) \/ NumEQ(x, y)

Zero == FromInt(0)

\* float addition
NumAdd(x, y) ==
    IF IsNaN(x) \/ IsNaN(y) THEN NaN
    ELSE IF IsFin(x) /\ IsFin(y) THEN Rat(x.n * y.d + y.n * x.d, x.d * y.d)
    ELSE IF IsFin(x) THEN y
    ELSE IF IsFin(y) THEN x
    ELSE IF x.n = y.n THEN x ELSE NaN

----------------------------------------------------------------------------
(* Outcomes of a call: a value, or a raised exception with its message.     *)
(* A message is a format string and the text formatted into it.            *)

NoText == <<>>

Ok(v) == [exc |-> "none", msg |-> "", about |-> NoText, v |-> v]

Raise(e, m, a) == [exc |-> e, msg |-> m, about |-> a, v |-> Zero]

Raised(r) == r.exc # "none"

----------------------------------------------------------------------------
(* int(text) and float(text)                                               *)

HasSign(s) == Len(s) > 0 /\ s[1] \in {"+", "-"}

Unsigned(s) == IF HasSign(s) THEN Tail(s) ELSE s

SignOf(s) == IF Len(s) > 0 /\ s[1] = "-" THEN -1 ELSE 1

\* int(text): blanks around, an optional sign, one or more digits
ParseInt(text) ==
    LET t == Strip(text)
        u == Unsigned(t)
    IN  IF Len(u) > 0 /\ AllDigits(u)
        THEN Ok(SignOf(t) * DigitsVal(u))
        ELSE Raise("ValueError", "invalid literal for int() with base 10: {!r}", text)

FirstIndex(s, cs) ==
    LET idx == {i \in 1..Len(s) : s[i] \in cs}
    IN  IF idx = {} THEN 0 ELSE CHOOSE i \in idx : \A j \in idx : i <= j

\* float(text): blanks around, an optional sign, then inf, infinity or nan
\* in any case, or digits with an optional point and an optional exponent
ParseFloat(text) ==
    LET t    == Strip(text)
        sg   == SignOf(t)
        u    == Unsigned(t)
        lu   == Lower(u)
        ePos == FirstIndex(lu, {"e"})
        mant == IF ePos = 0 THEN lu ELSE SubSeq(lu, 1, ePos - 1)
        expo == IF ePos = 0 THEN <<>> ELSE SubSeq(lu, ePos + 1, Len(lu))
        dPos == FirstIndex(mant, {"."})
        ip   == IF dPos = 0 THEN mant ELSE SubSeq(mant, 1, dPos - 1)
        fp   == IF dPos = 0 THEN <<>> ELSE SubSeq(mant, dPos + 1, Len(mant))
        eu   == Unsigned(expo)
        mantOk == AllDigits(ip) /\ AllDigits(fp) /\ Len(ip) + Len(fp) > 0
        expOk  == ePos = 0 \/ (Len(eu) > 0 /\ AllDigits(eu))
        ev   == IF ePos = 0 THEN 0 ELSE SignOf(expo) * DigitsVal(eu)
        mn   == sg * DigitsVal(ip \o fp)
        md   == Pow10(Len(fp))
    IN  IF lu \in {<<"i","n","f">>, <<"i","n","f","i","n","i","t","y">>}
        THEN Ok(IF sg = 1 THEN PosInf ELSE NegInf)
        ELSE IF lu = <<"n","a","n">> THEN Ok(NaN)
        ELSE IF mantOk /\ expOk
        THEN Ok(IF ev >= 0 THEN Rat(mn * Pow10(ev), md)
                           ELSE Rat(mn, md * Pow10(-ev)))
        ELSE Raise("ValueError", "could not convert string to float: {!r}", text)

\* int(x) for a float x: truncation toward zero
IntOfFloat(x) ==
    IF IsNaN(x) THEN Raise("ValueError", "cannot convert float NaN to integer", NoText)
    ELSE IF ~IsFin(x)
    THEN Raise("OverflowError", "cannot convert float infinity to integer", NoText)
    ELSE Ok(IF x.n >= 0 THEN x.n \div x.d ELSE -((-x.n) \div x.d))

----------------------------------------------------------------------------
(* Unit parsers and the duration display                                   *)

\* parse_duration_to_minutes adding the seconds as if they were minutes
parse_duration_to_minutes_raw_seconds(value) ==
    LET parts == SplitColon(Strip(value))
    IN  IF Len(parts) = 1 THEN ParseFloat(parts[1])
        ELSE IF Len(parts) = 2 THEN
            LET hours   == ParseInt(parts[1])
                minutes == ParseInt(parts[2])
            IN  IF Raised(hours) THEN hours
                ELSE IF Raised(minutes) THEN minutes
                ELSE Ok(FromInt(hours.v * 60 + minutes.v))
        ELSE IF Len(parts) = 3 THEN
            LET hours   == ParseInt(parts[1])
                minutes == ParseInt(parts[2])
                seconds == ParseInt(parts[3])
            IN  IF Raised(hours) THEN hours
                ELSE IF Raised(minutes) THEN minutes
                ELSE IF Raised(seconds) THEN seconds
                ELSE Ok(FromInt(hours.v * 60 + minutes.v + seconds.v))
        ELSE Raise("ValueError", "Invalid duration format", NoText)

parse_duration_to_minutes(value) ==
    LET parts == SplitColon(Strip(value))
    IN  IF Len(parts) = 1 THEN ParseFloat(parts[1])
        ELSE IF Len(parts) = 2 THEN
            LET hours   == ParseInt(parts[1])
                minutes == ParseInt(parts[2])
            IN  IF Raised(hours) THEN hours
                ELSE IF Raised(minutes) THEN minutes
                ELSE Ok(FromInt(hours.v * 60 + minutes.v))
        ELSE IF Len(parts) = 3 THEN
            LET hours   == ParseInt(parts[1])
                minutes == ParseInt(parts[2])
                seconds == ParseInt(parts[3])
            IN  IF Raised(hours) THEN hours
                ELSE IF Raised(minutes) THEN minutes
                ELSE IF Raised(seconds) THEN seconds
                ELSE Ok(NumAdd(FromInt(hours.v * 60 + minutes.v), Rat(seconds.v, 60)))
        ELSE Raise("ValueError", "Invalid duration format", NoText)

parse_pace_to_min_per_km(value) ==
    LET parts == SplitColon(Strip(value))
    IN  IF Len(parts) = 1 THEN ParseFloat(parts[1])
        ELSE IF Len(parts) = 2 THEN
            LET minutes == ParseInt(parts[1])
                seconds == ParseInt(parts[2])
            IN  IF Raised(minutes) THEN minutes
                ELSE IF Raised(seconds) THEN seconds
                ELSE Ok(NumAdd(FromInt(minutes.v), Rat(seconds.v, 60)))
        ELSE Raise("ValueError", "Invalid pace format", NoText)

\* RoundHalfEven with the rounding left out: int(x) alone
RoundHalfEven_truncating(x) == x.n \div x.d

\* round(x) for a finite x >= 0: nearest integer, a tie going to the even one
RoundHalfEven(x) ==
    LET fl   == x.n \div x.d
        twoR == 2 * (x.n - fl * x.d)
    IN  IF twoR < x.d THEN fl
        ELSE IF twoR > x.d THEN fl + 1
        ELSE IF fl % 2 = 0 THEN fl ELSE fl + 1

format_minutes_to_hhmm(minutes_total) ==
    IF ~IsFin(minutes_total)
    THEN \* inf // 60 and nan // 60 are nan, and int(nan) raises
         Raise("ValueError", "cannot convert float NaN to integer", NoText)
    ELSE LET hours   == minutes_total.n \div (60 * minutes_total.d)
             rest    == Rat(minutes_total.n - 60 * hours * minutes_total.d,
                            minutes_total.d)
             minutes == RoundHalfEven(rest)
         IN  Ok(Fmt02d(hours) \o <<":">> \o Fmt02d(minutes))

----------------------------------------------------------------------------
(* validate_date: datetime.strptime(value, "%Y-%m-%d")                     *)

IsLeap(y) == (y % 4 = 0 /\ y % 100 # 0) \/ y % 400 = 0

DaysInMonth(y, m) ==
    IF m = 2 THEN (IF IsLeap(y) THEN 29 ELSE 28)
    ELSE IF m \in {4, 6, 9, 11} THEN 30 ELSE 31

CharAt(s, i) == IF i >= 1 /\ i <= Len(s) THEN s[i] ELSE ""

NonZeroDigit(c) == IsDigit(c) /\ c # "0"

\* %m at position i: 1[0-2], then 0[1-9], then [1-9]; the alternative taken
\* is the first one after which the '-' of the format follows.  0 when none.
MonthLen(s, i) ==
    LET a == CharAt(s, i)
        b == CharAt(s, i + 1)
        two == (a = "1" /\ b \in {"0", "1", "2"}) \/ (a = "0" /\ NonZeroDigit(b))
    IN  IF two /\ CharAt(s, i + 2) = "-" THEN 2
        ELSE IF NonZeroDigit(a) /\ b = "-" THEN 1
        ELSE 0

\* %d at position i: 3[01], [12]\d, 0[1-9], [1-9], or a blank and [1-9];
\* the first alternative that matches is taken.  0 when none.
DayLen(s, i) ==
    LET a == CharAt(s, i)
        b == CharAt(s, i + 1)
    IN  IF a = "3" /\ b \in {"0", "1"} THEN 2
        ELSE IF a \in {"1", "2"} /\ IsDigit(b) THEN 2
        ELSE IF a = "0" /\ NonZeroDigit(b) THEN 2
        ELSE IF NonZeroDigit(a) THEN 1
        ELSE IF a = " " /\ NonZeroDigit(b) THEN 2
        ELSE 0

\* the fields strptime reads from value; ok is FALSE when the text does not
\* match the format, rest is the text left over after the day
DateFields(value) ==
    LET yOk  == Len(value) >= 5 /\ AllDigits(SubSeq(value, 1, 4)) /\ value[5] = "-"
        mLen == IF yOk THEN MonthLen(value, 6) ELSE 0
        dPos == 6 + mLen + 1
        dLen == IF mLen > 0 THEN DayLen(value, dPos) ELSE 0
    IN  IF dLen = 0
        THEN [ok |-> FALSE, y |-> 0, m |-> 0, d |-> 0, rest |-> NoText]
        ELSE [ok   |-> TRUE,
              y    |-> DigitsVal(SubSeq(value, 1, 4)),
              m    |-> DigitsVal(SubSeq(value, 6, 5 + mLen)),
              d    |-> DigitsVal(Strip(SubSeq(value, dPos, dPos + dLen - 1))),
              rest |-> SubSeq(value, dPos + dLen, Len(value))]

validate_date(value) ==
    LET f == DateFields(value)
    IN  IF ~f.ok
        THEN Raise("ValueError", "time data {!r} does not match format '%Y-%m-%d'", value)
        ELSE IF f.rest # <<>>
        THEN Raise("ValueError", "unconverted data remains: {}", f.rest)
        ELSE IF f.y = 0
        THEN Raise("ValueError", "year 0 is out of range", NoText)
        ELSE IF f.d > DaysInMonth(f.y, f.m)
        THEN Raise("ValueError", "day is out of range for month", NoText)
        ELSE Ok(Zero)

----------------------------------------------------------------------------
(* The query builder and the store                                         *)

TextParam(s) == [t |-> "text", s |-> s, x |-> Zero]
RealParam(x) == [t |-> "real", s |-> NoText, x |-> x]

T_all == <<"a", "l", "l">>

\* Clause(on, c) and Param(on, p): what one filter appends to the WHERE
\* clause and to the parameter list
Clause(on, c) == IF on THEN <<c>> ELSE <<>>
Param(on, p) == IF on THEN <<p>> ELSE <<>>

\* the filter texts after strip(), the outcomes of validating them, and the
\* query they give: the first exception raised, or the clauses and params
AssembleQuery(typeOn, af, fd, td, mn, mx, vfd, vtd, vmn, vmx) ==
    IF Raised(vfd) THEN vfd
    ELSE IF Raised(vtd) THEN vtd
    ELSE IF Raised(vmn) THEN vmn
    ELSE IF Raised(vmx) THEN vmx
    ELSE Ok([query  |-> Clause(typeOn, "activity_type = ?")
                        \o Clause(fd # <<>>, "activity_date >= ?")
                        \o Clause(td # <<>>, "activity_date <= ?")
                        \o Clause(mn # <<>>, "distance_km >= ?")
                        \o Clause(mx # <<>>, "distance_km <= ?"),
             params |-> Param(typeOn, TextParam(af))
                        \o Param(fd # <<>>, TextParam(fd))
                        \o Param(td # <<>>, TextParam(td))
                        \o Param(mn # <<>>, RealParam(vmn.v))
                        \o Param(mx # <<>>, RealParam(vmx.v))])

\* validate_date(text) or float(text) of a filter that is filled in
IfFilled(text, outcome) == IF text # <<>> THEN outcome ELSE Ok(Zero)

\* build_activities_query comparing the activity with "all" before it is
\* lower-cased
build_activities_query_case_sensitive_all(activity_filter, from_date, to_date, min_dist, max_dist) ==
    AssembleQuery(Strip(activity_filter) # <<>> /\ Strip(activity_filter) # T_all,
                  Lower(Strip(activity_filter)),
                  Strip(from_date), Strip(to_date), Strip(min_dist), Strip(max_dist),
                  IfFilled(Strip(from_date), validate_date(Strip(from_date))),
                  IfFilled(Strip(to_date), validate_date(Strip(to_date))),
                  IfFilled(Strip(min_dist), ParseFloat(Strip(min_dist))),
                  IfFilled(Strip(max_dist), ParseFloat(Strip(max_dist))))

\* The WHERE clause is kept as the list of predicates appended to it; the
\* select list and ORDER BY activity_date DESC, id DESC are fixed.
build_activities_query(activity_filter, from_date, to_date, min_dist, max_dist) ==
    AssembleQuery(Lower(Strip(activity_filter)) \notin {<<>>, T_all},
                  Lower(Strip(activity_filter)),
                  Strip(from_date), Strip(to_date), Strip(min_dist), Strip(max_dist),
                  IfFilled(Strip(from_date), validate_date(Strip(from_date))),
                  IfFilled(Strip(to_date), validate_date(Strip(to_date))),
                  IfFilled(Strip(min_dist), ParseFloat(Strip(min_dist))),
                  IfFilled(Strip(max_dist), ParseFloat(Strip(max_dist))))

\* bytewise comparison of two TEXT values (BINARY collation)
RECURSIVE TextLT(_, _)
TextLT(a, b) ==
    IF b = <<>> THEN FALSE
    ELSE IF a = <<>> THEN TRUE
    ELSE IF Ord(a[1]) # Ord(b[1]) THEN Ord(a[1]) < Ord(b[1])
    ELSE TextLT(Tail(a), Tail(b))

TextLE(a, b) == a = b \/ TextLT(a, b)

\* one predicate of the WHERE clause on one row; a nan parameter is bound
\* as NULL, and a comparison with NULL selects nothing
RowSatisfies(row, clause, param) ==
    CASE clause = "activity_type = ?"  -> row.activity_type = param.s
      [] clause = "activity_date >= ?" -> TextLE(param.s, row.activity_date)
      [] clause = "activity_date <= ?" -> TextLE(row.activity_date, param.s)
      [] clause = "distance_km >= ?"   -> NumLE(param.x, row.distance_km)
      [] clause = "distance_km <= ?"   -> NumLE(row.distance_km, param.x)

\* ORDER BY activity_date DESC, id DESC
RowBefore(r1, r2) ==
    \/ TextLT(r2.activity_date, r1.activity_date)
    \/ r1.activity_date = r2.activity_date /\ r1.id > r2.id

RECURSIVE OrderRows(_)
OrderRows(rows) ==
    IF rows = {} THEN <<>>
    ELSE LET first == CHOOSE r \in rows : \A o \in rows \ {r} : RowBefore(r, o)
         IN  <<first>> \o OrderRows(rows \ {first})

Range(seq) == {seq[i] : i \in 1..Len(seq)}

\* conn.execute(query, params).fetchall()
ExecSelect(table, q) ==
    OrderRows({row \in Range(table) :
                 \A i \in 1..Len(q.query) :
                     RowSatisfies(row, q.query[i], q.params[i])})

\* the rows of the query q, or the exception its builder raised
Select(table, q) == IF Raised(q) THEN q ELSE Ok(ExecSelect(table, q.v))

fetch_activities(table, activity_filter, from_date, to_date, min_dist, max_dist) ==
    Select(table, build_activities_query(activity_filter, from_date, to_date,
                                         min_dist, max_dist))

\* insert_activity_record into a table whose columns lack NOT NULL
insert_activity_record_nullable(table, id, activity_date, activity_type, distance_km, avg_metric_value, avg_metric_unit, total_minutes, calories) ==
    Ok(Append(table,
              [id               |-> id,
               activity_date    |-> activity_date,
               activity_type    |-> activity_type,
               distance_km      |-> distance_km,
               avg_metric_value |-> avg_metric_value,
               avg_metric_unit  |-> avg_metric_unit,
               total_minutes    |-> total_minutes,
               calories         |-> calories]))

\* INSERT INTO activities: the id comes from the AUTOINCREMENT counter; every
\* column is NOT NULL and a nan is bound as NULL.  The created_at column is
\* never read back and is left out of the row.
insert_activity_record(table, id, activity_date, activity_type, distance_km, avg_metric_value, avg_metric_unit, total_minutes, calories) ==
    IF IsNaN(distance_km) \/ IsNaN(avg_metric_value) \/ IsNaN(total_minutes)
    THEN Raise("IntegrityError", "NOT NULL constraint failed", NoText)
    ELSE Ok(Append(table,
                   [id               |-> id,
                    activity_date    |-> activity_date,
                    activity_type    |-> activity_type,
                    distance_km      |-> distance_km,
                    avg_metric_value |-> avg_metric_value,
                    avg_metric_unit  |-> avg_metric_unit,
                    total_minutes    |-> total_minutes,
                    calories         |-> calories]))

----------------------------------------------------------------------------
(* ActivityMonitorApp                                                      *)

T_cycling == <<"c", "y", "c", "l", "i", "n", "g">>
T_hiking  == <<"h", "i", "k", "i", "n", "g">>
T_walking == <<"w", "a", "l", "k", "i", "n", "g">>

ACTIVITIES == <<T_cycling, T_hiking, T_walking>>

\* date.today().isoformat() on the day of the run
Today == <<"2", "0", "2", "6", "-", "0", "1", "-", "1", "5">>

Dialog(kind, title, r) ==
    [kind |-> kind, title |-> title, msg |-> r.msg, about |-> r.about]

Info(title, msg) == [kind |-> "showinfo", title |-> title, msg |-> msg, about |-> NoText]

\* the fields of the add form after clear_form
ClearedForm ==
    [date |-> Today, activity |-> ACTIVITIES[1], distance |-> <<>>,
     avg |-> <<>>, duration |-> <<>>, calories |-> <<>>]

\* the filter fields after reset_filters
NoFilters ==
    [activity |-> T_all, from |-> <<>>, to |-> <<>>, min |-> <<>>, max |-> <<>>]

build_query(fv) ==
    build_activities_query(fv.activity, fv.from, fv.to, fv.min, fv.max)

fetch_filtered_rows(table, fv) == Select(table, build_query(fv))

\* one Treeview row; the distance and average columns are display text that
\* nothing reads back and are left out
TreeRow(row) ==
    [id |-> row.id, activity_date |-> row.activity_date,
     activity_type |-> row.activity_type,
     duration |-> format_minutes_to_hhmm(row.total_minutes).v,
     calories |-> row.calories]

get_records_count(table) == Len(table)

\* the rows whose duration the display cannot format
Unshowable(rows) ==
    {i \in 1..Len(rows) : Raised(format_minutes_to_hhmm(rows[i].total_minutes))}

\* the Treeview filled up to the row first, where the ValueError of the
\* duration display leaves refresh_table before the status bar is written
FillUntil(rows, oldStatus, first) ==
    [tree |-> [i \in 1..(first - 1) |-> TreeRow(rows[i])],
     status |-> oldStatus, dialogs |-> <<>>,
     exc |-> format_minutes_to_hhmm(rows[first].total_minutes)]

\* the body of refresh_table once fetch_filtered_rows has answered
FillTree(table, rows, oldStatus) ==
    IF Raised(rows)
    THEN [tree |-> <<>>, status |-> oldStatus,
          dialogs |-> <<Dialog("showerror", "Filter error", rows)>>,
          exc |-> Ok(Zero)]
    ELSE IF Unshowable(rows.v) = {}
    THEN [tree |-> [i \in 1..Len(rows.v) |-> TreeRow(rows.v[i])],
          status |-> get_records_count(table),
          dialogs |-> <<>>, exc |-> Ok(Zero)]
    ELSE FillUntil(rows.v, oldStatus,
                   CHOOSE i \in Unshowable(rows.v) :
                       \A j \in Unshowable(rows.v) : i <= j)

\* refresh_table: the Treeview is emptied, then refilled from the filtered
\* rows, then the status bar is updated.  A ValueError of the query builder
\* is shown and ends the refresh; a ValueError of the duration display
\* leaves the rows inserted so far and propagates to the caller.
refresh_table(table, fv, oldStatus) ==
    FillTree(table, fetch_filtered_rows(table, fv), oldStatus)

IsActivity(t) == \E i \in 1..Len(ACTIVITIES) : ACTIVITIES[i] = t

\* int(float(text)) once float(text) has answered
IntOf(parsed) == IF Raised(parsed) THEN parsed ELSE IntOfFloat(parsed.v)

\* the average metric: a speed for cycling, a pace for the other activities
ParseAvg(activity_type, avg_text) ==
    IF activity_type = T_cycling THEN ParseFloat(avg_text)
    ELSE parse_pace_to_min_per_km(avg_text)

\* CheckRecord validating the date before the numeric fields are parsed
CheckRecord_date_first(activity_date, activity_type, distance_km, total_minutes, calories, date_check, avg) ==
    IF Raised(date_check) THEN date_check
    ELSE IF Raised(distance_km) THEN distance_km
    ELSE IF Raised(total_minutes) THEN total_minutes
    ELSE IF Raised(calories) THEN calories
    ELSE IF ~IsActivity(activity_type)
    THEN Raise("ValueError", "Invalid activity", NoText)
    ELSE IF NumLE(distance_km.v, Zero)
    THEN Raise("ValueError", "Distance must be greater than 0", NoText)
    ELSE IF NumLE(total_minutes.v, Zero)
    THEN Raise("ValueError", "Duration must be greater than 0", NoText)
    ELSE IF calories.v < 0
    THEN Raise("ValueError", "Calories cannot be negative", NoText)
    ELSE IF Raised(avg) THEN avg
    ELSE IF NumLE(avg.v, Zero)
    THEN Raise("ValueError",
               IF activity_type = T_cycling
               THEN "Average speed must be greater than 0"
               ELSE "Average pace must be greater than 0", NoText)
    ELSE Ok([activity_date    |-> activity_date,
             activity_type    |-> activity_type,
             distance_km      |-> distance_km.v,
             avg_metric_value |-> avg.v,
             avg_metric_unit  |-> IF activity_type = T_cycling
                                  THEN "km/h" ELSE "min/km",
             total_minutes    |-> total_minutes.v,
             calories         |-> calories.v])

\* The statements of the try block of save_activity up to the insert, on
\* the outcomes of the conversions they make: the record to insert, or the
\* first exception raised.
CheckRecord(activity_date, activity_type, distance_km, total_minutes, calories, date_check, avg) ==
    IF Raised(distance_km) THEN distance_km
    ELSE IF Raised(total_minutes) THEN total_minutes
    ELSE IF Raised(calories) THEN calories
    ELSE IF Raised(date_check) THEN date_check
    ELSE IF ~IsActivity(activity_type)
    THEN Raise("ValueError", "Invalid activity", NoText)
    ELSE IF NumLE(distance_km.v, Zero)
    THEN Raise("ValueError", "Distance must be greater than 0", NoText)
    ELSE IF NumLE(total_minutes.v, Zero)
    THEN Raise("ValueError", "Duration must be greater than 0", NoText)
    ELSE IF calories.v < 0
    THEN Raise("ValueError", "Calories cannot be negative", NoText)
    ELSE IF Raised(avg) THEN avg
    ELSE IF NumLE(avg.v, Zero)
    THEN Raise("ValueError",
               IF activity_type = T_cycling
               THEN "Average speed must be greater than 0"
               ELSE "Average pace must be greater than 0", NoText)
    ELSE Ok([activity_date    |-> activity_date,
             activity_type    |-> activity_type,
             distance_km      |-> distance_km.v,
             avg_metric_value |-> avg.v,
             avg_metric_unit  |-> IF activity_type = T_cycling
                                  THEN "km/h" ELSE "min/km",
             total_minutes    |-> total_minutes.v,
             calories         |-> calories.v])

\* The try block of save_activity up to the insert, on the form f
BuildRecord(f) ==
    CheckRecord(Strip(f.date),
                Lower(Strip(f.activity)),
                ParseFloat(Strip(f.distance)),
                parse_duration_to_minutes(f.duration),
                IntOf(ParseFloat(Strip(f.calories))),
                validate_date(Strip(f.date)),
                ParseAvg(Lower(Strip(f.activity)), Strip(f.avg)))

----------------------------------------------------------------------------
(* Bounds and the texts the user types                                     *)

\* at most this many records are ever inserted in one run
MaxSaves == 2

\* longest ':'-separated text handed to the unit parsers
MaxSegments == 4

\* the duration display is applied to 0, 0.1, 0.2, ... up to this many tenths
MaxTenths == 1500

BaseForm ==
    [date |-> <<"2", "0", "2", "6", "-", "0", "1", "-", "1", "0">>,
     activity |-> T_cycling, distance |-> <<"4", "2">>, avg |-> <<"2", "8">>,
     duration |-> <<"1", ":", "3", "0">>, calories |-> <<"9", "5", "0">>]

DateTexts ==
    {<<"2", "0", "2", "6", "-", "0", "1", "-", "1", "0">>,
     <<"2", "0", "2", "6", "-", "1", "-", "5">>,
     <<"2", "0", "2", "6", "/", "0", "1", "/", "0", "1">>,
     <<"2", "0", "2", "6", "-", "0", "2", "-", "3", "0">>}

ActivityTexts ==
    {<<"c", "y", "c", "l", "i", "n", "g">>,
     <<"w", "a", "l", "k", "i", "n", "g">>,
     <<"H", "i", "k", "i", "n", "g", " ">>,
     <<"r", "u", "n", "n", "i", "n", "g">>}

DistanceTexts ==
    {<<"4", "2">>,
     <<"n", "a", "n">>,
     <<"0">>,
     <<"a", "b", "c">>}

AvgTexts ==
    {<<"2", "8">>,
     <<"8", ":", "3", "0">>,
     <<"0">>,
     <<"1", ":", "2", ":", "3">>}

DurationTexts ==
    {<<"1", ":", "3", "0">>,
     <<"i", "n", "f">>,
     <<"0">>,
     <<"1", ":", "2", ":", "3", ":", "4">>}

CaloriesTexts ==
    {<<"9", "5", "0">>,
     <<"4", "3", "0", ".", "9">>,
     <<"-", "5">>,
     <<"i", "n", "f">>}

\* every combination of the field texts
AllForms ==
    [date : DateTexts, activity : ActivityTexts, distance : DistanceTexts,
     avg : AvgTexts, duration : DurationTexts, calories : CaloriesTexts]

\* the forms filled in while the application runs: three entries the
\* handler accepts, and one entry per check that rejects
AppForms ==
    {BaseForm,
     [BaseForm EXCEPT !.activity = T_walking, !.avg = <<"8", ":", "3", "0">>, !.date = <<"2", "0", "2", "6", "-", "1", "-", "5">>],
     [BaseForm EXCEPT !.duration = <<"i", "n", "f">>],
     [BaseForm EXCEPT !.date = <<"2", "0", "2", "6", "/", "0", "1", "/", "0", "1">>],
     [BaseForm EXCEPT !.activity = <<"r", "u", "n", "n", "i", "n", "g">>],
     [BaseForm EXCEPT !.distance = <<"0">>],
     [BaseForm EXCEPT !.distance = <<"n", "a", "n">>],
     [BaseForm EXCEPT !.avg = <<"0">>],
     [BaseForm EXCEPT !.duration = <<"0">>],
     [BaseForm EXCEPT !.calories = <<"-", "5">>],
     [BaseForm EXCEPT !.calories = <<"i", "n", "f">>]}

\* filter texts typed in the browse tab; the activity box is a read-only
\* list of "all" and the three activities
AppFilters ==
    {NoFilters,
     [NoFilters EXCEPT !.activity = T_cycling],
     [NoFilters EXCEPT !.from = <<"2", "0", "2", "6", "/", "0", "1", "/", "0", "1">>]}

----------------------------------------------------------------------------
(* The save handler                                                        *)

\* the except clause of save_activity: only a ValueError is caught and shown
Shown(r) ==
    IF r.exc = "ValueError"
    THEN <<Dialog("showerror", "Validation error", r)>>
    ELSE <<>>

\* insert_activity_record on the record rec, unless building it raised
InsertRecord(table, id, rec) ==
    IF Raised(rec) THEN rec
    ELSE insert_activity_record(table, id, rec.v.activity_date,
                                rec.v.activity_type, rec.v.distance_km,
                                rec.v.avg_metric_value, rec.v.avg_metric_unit,
                                rec.v.total_minutes, rec.v.calories)

\* the state after an exception r left the try block before the insert
NotSaved(f, r) ==
    [store |-> store, nextId |-> nextId, form |-> f, tree |-> tree,
     selection |-> selection, status |-> status, tab |-> tab,
     dialog |-> Shown(r), ret |-> r]

\* the state after the insert: showinfo, clear_form, refresh_table rf, and
\* the browse tab selected unless the refresh raised
Saved(table, rf) ==
    [store |-> table, nextId |-> nextId + 1, form |-> ClearedForm,
     tree |-> rf.tree, selection |-> {}, status |-> rf.status,
     tab |-> IF Raised(rf.exc) THEN tab ELSE "browse",
     dialog |-> <<Info("Saved", "Activity has been saved.")>>
                \o rf.dialogs \o Shown(rf.exc),
     ret |-> rf.exc]

AfterInsert(f, ins) ==
    IF Raised(ins) THEN NotSaved(f, ins)
    ELSE Saved(ins.v, refresh_table(ins.v, filterVars, status))

\* save_activity on the form f: the whole handler, as the values of the
\* state after it.  Only a ValueError is caught and shown; any other
\* exception leaves the handler.
save_activity(f) == AfterInsert(f, InsertRecord(store, nextId, BuildRecord(f)))

----------------------------------------------------------------------------
(* Charts and export                                                       *)

\* activity_date[:7]
MonthKey(activity_date) ==
    SubSeq(activity_date, 1, IF Len(activity_date) < 7 THEN Len(activity_date) ELSE 7)

\* the three dictionaries of show_charts before the loop over the rows
NoAggregates ==
    [by_activity_distance |-> [name \in Range(ACTIVITIES) |-> Zero],
     by_activity_calories |-> [name \in Range(ACTIVITIES) |-> 0],
     by_month_distance    |-> [month_key \in {} |-> Zero]]

\* by_month_distance.get(month_key, 0.0)
GetOrZero(by_month, month_key) ==
    IF month_key \in DOMAIN by_month THEN by_month[month_key] ELSE Zero

\* by_month_distance[month_key] = value
SetKey(by_month, month_key, value) ==
    [k \in DOMAIN by_month \cup {month_key} |->
        IF k = month_key THEN value ELSE by_month[k]]

\* by_activity_distance[activity_type] of a type that is no key of it
KeyError(key) == Raise("KeyError", "{!r}", key)

\* AddRow storing the distance of the row under its month instead of adding
\* it to what the month already has
AddRow_overwriting_month(agg, row) ==
    IF row.activity_type \notin DOMAIN agg.by_activity_distance
    THEN KeyError(row.activity_type)
    ELSE Ok([by_activity_distance |->
                [agg.by_activity_distance EXCEPT
                    ![row.activity_type] = NumAdd(@, row.distance_km)],
             by_activity_calories |->
                [agg.by_activity_calories EXCEPT
                    ![row.activity_type] = @ + row.calories],
             by_month_distance |->
                SetKey(agg.by_month_distance, MonthKey(row.activity_date),
                       row.distance_km)])

\* one turn of the loop of show_charts: the dictionaries after it, or the
\* KeyError of the first statement when the activity of the row is not one
\* of ACTIVITIES
AddRow(agg, row) ==
    IF row.activity_type \notin DOMAIN agg.by_activity_distance
    THEN KeyError(row.activity_type)
    ELSE Ok([by_activity_distance |->
                [agg.by_activity_distance EXCEPT
                    ![row.activity_type] = NumAdd(@, row.distance_km)],
             by_activity_calories |->
                [agg.by_activity_calories EXCEPT
                    ![row.activity_type] = @ + row.calories],
             by_month_distance |->
                SetKey(agg.by_month_distance, MonthKey(row.activity_date),
                       NumAdd(GetOrZero(agg.by_month_distance,
                                        MonthKey(row.activity_date)),
                              row.distance_km))])

\* the loop of show_charts over rows, from the outcome so far: it ends with
\* the rows or with the first exception
RECURSIVE Aggregate(_, _)
Aggregate(rows, sofar) ==
    IF Raised(sofar) \/ rows = <<>> THEN sofar
    ELSE Aggregate(Tail(rows), AddRow(sofar.v, Head(rows)))

\* show_charts once fetch_filtered_rows has answered: the dialogs shown and
\* the aggregates drawn.  An exception of the query builder or of the loop
\* leaves the handler; with no rows, or without matplotlib, nothing is drawn.
DrawCharts(rows, matplotlib) ==
    IF Raised(rows) THEN [dialogs |-> <<>>, ret |-> rows]
    ELSE IF rows.v = <<>>
    THEN [dialogs |-> <<Info("No data", "There is no data for current filters.")>>,
          ret |-> Ok(Zero)]
    ELSE IF ~matplotlib
    THEN [dialogs |-> <<[kind |-> "showerror", title |-> "Missing dependency",
                         msg |-> "matplotlib is required for charts. Install it with: pip install matplotlib",
                         about |-> NoText]>>,
          ret |-> Ok(Zero)]
    ELSE [dialogs |-> <<>>, ret |-> Aggregate(rows.v, Ok(NoAggregates))]

show_charts(table, fv, matplotlib) ==
    DrawCharts(fetch_filtered_rows(table, fv), matplotlib)

\* export_filtered_to_csv once fetch_filtered_rows has answered: the dialogs
\* shown and the rows written under the header line.  target_path is the
\* answer of the file dialog, empty when it is cancelled.
WriteCsv(rows, target_path) ==
    IF Raised(rows) THEN [dialogs |-> <<>>, ret |-> rows]
    ELSE IF rows.v = <<>>
    THEN [dialogs |-> <<Info("No data", "There is no data for current filters.")>>,
          ret |-> Ok(Zero)]
    ELSE IF target_path = ""
    THEN [dialogs |-> <<>>, ret |-> Ok(Zero)]
    ELSE [dialogs |-> <<[kind |-> "showinfo", title |-> "Exported",
                         msg |-> "CSV exported to:\n{}", about |-> target_path]>>,
          ret |-> Ok(rows.v)]

export_filtered_to_csv(table, fv, target_path) ==
    WriteCsv(fetch_filtered_rows(table, fv), target_path)

----------------------------------------------------------------------------
(* The application as a state machine                                      *)

\* __init__ on an empty database file: the table is created, both tabs are
\* built, the table is refreshed and the status bar written
Init ==
    /\ store = <<>>
    /\ nextId = 1
    /\ filterVars = NoFilters
    /\ tree = <<>>
    /\ selection = {}
    /\ status = 0
    /\ tab = "add"
    /\ dialog = <<>>
    /\ form = ClearedForm
    /\ op = "__init__"
    /\ args = <<>>
    /\ ret = Ok(Zero)

\* the user fills the add form with f and presses "Save activity"
SaveStep(f) ==
    /\ nextId <= MaxSaves
    /\ op' = "save_activity"
    /\ args' = f
    /\ \E r \in {save_activity(f)} :
           /\ store' = r.store
           /\ nextId' = r.nextId
           /\ form' = r.form
           /\ tree' = r.tree
           /\ selection' = r.selection
           /\ status' = r.status
           /\ tab' = r.tab
           /\ dialog' = r.dialog
           /\ ret' = r.ret
    /\ UNCHANGED filterVars

SaveActivity == \E f \in AppForms : SaveStep(f)

\* "Clear form": clear_form
ClearForm ==
    /\ op' = "clear_form"
    /\ args' = <<>>
    /\ form' = ClearedForm
    /\ dialog' = <<>>
    /\ ret' = Ok(Zero)
    /\ UNCHANGED <<store, nextId, filterVars, tree, selection, status, tab>>

\* the user edits the filter fields without applying them
TypeFilters ==
    \E fv \in AppFilters :
        /\ fv # filterVars
        /\ filterVars' = fv
        /\ UNCHANGED <<store, nextId, tree, selection, status, tab, dialog,
                       form, op, args, ret>>

\* the Treeview, the status bar and the dialogs after the refresh rf
Refreshed(rf, before) ==
    /\ tree' = rf.tree
    /\ selection' = {}
    /\ status' = rf.status
    /\ dialog' = before \o rf.dialogs
    /\ ret' = rf.exc

\* "Apply filters": refresh_table
ApplyFilters ==
    /\ op' = "refresh_table"
    /\ args' = filterVars
    /\ Refreshed(refresh_table(store, filterVars, status), <<>>)
    /\ UNCHANGED <<store, nextId, filterVars, tab, form>>

\* "Reset": reset_filters
ResetFilters ==
    /\ op' = "reset_filters"
    /\ args' = <<>>
    /\ filterVars' = NoFilters
    /\ Refreshed(refresh_table(store, NoFilters, status), <<>>)
    /\ UNCHANGED <<store, nextId, tab, form>>

\* DeleteIds running the DELETE statement for the lowest selected id alone
DeleteIds_first_only(table, ids_to_delete) ==
    SelectSeq(table, LAMBDA r :
        r.id # (CHOOSE i \in ids_to_delete : \A j \in ids_to_delete : i <= j))

\* the rows of the store left after DELETE FROM activities WHERE id IN ids
DeleteIds(table, ids_to_delete) ==
    SelectSeq(table, LAMBDA r : r.id \notin ids_to_delete)

Warning(title, msg) ==
    [kind |-> "showwarning", title |-> title, msg |-> msg, about |-> NoText]

AskYesNo(title, msg) ==
    [kind |-> "askyesno", title |-> title, msg |-> msg, about |-> NoText]

\* the user selects the rows sel of the table and presses "Delete
\* selected", answering the confirmation with confirm
DeleteSelected ==
    \E sel \in SUBSET (1..Len(tree)), confirm \in BOOLEAN :
        /\ op' = "delete_selected"
        /\ args' = <<sel, confirm>>
        /\ IF sel = {}
           THEN /\ dialog' = <<Warning("No selection",
                                       "Select at least one row to delete.")>>
                /\ ret' = Ok(Zero)
                /\ selection' = sel
                /\ UNCHANGED <<store, nextId, filterVars, tree, status, tab, form>>
           ELSE IF ~confirm
           THEN /\ dialog' = <<AskYesNo("Confirm", "Delete selected activity entries?")>>
                /\ ret' = Ok(Zero)
                /\ selection' = sel
                /\ UNCHANGED <<store, nextId, filterVars, tree, status, tab, form>>
           ELSE \E kept \in {DeleteIds(store, {tree[i].id : i \in sel})} :
                    /\ store' = kept
                    /\ Refreshed(refresh_table(kept, filterVars, status),
                                 <<AskYesNo("Confirm", "Delete selected activity entries?")>>)
                    /\ UNCHANGED <<nextId, filterVars, tab, form>>

\* "Export CSV": the file dialog is cancelled or answers with a path
TargetPaths == {"", "activities_export.csv"}

ExportCsv ==
    \E target_path \in TargetPaths :
        /\ op' = "export_filtered_to_csv"
        /\ args' = [filters |-> filterVars, target_path |-> target_path]
        /\ \E r \in {export_filtered_to_csv(store, filterVars, target_path)} :
               /\ dialog' = r.dialogs
               /\ ret' = r.ret
        /\ UNCHANGED <<store, nextId, filterVars, tree, selection, status, tab, form>>

\* "Show charts": matplotlib is installed or it is not
ShowChartsStep(matplotlib) ==
    /\ op' = "show_charts"
    /\ args' = [filters |-> filterVars, matplotlib |-> matplotlib]
    /\ \E r \in {show_charts(store, filterVars, matplotlib)} :
           /\ dialog' = r.dialogs
           /\ ret' = r.ret
    /\ UNCHANGED <<store, nextId, filterVars, tree, selection, status, tab, form>>

ShowCharts == \E matplotlib \in BOOLEAN : ShowChartsStep(matplotlib)

Next ==
    \/ SaveActivity
    \/ ClearForm
    \/ TypeFilters
    \/ ApplyFilters
    \/ ResetFilters
    \/ DeleteSelected

Spec == Init /\ [][Next]_vars

----------------------------------------------------------------------------
(* Every handler of the browse tab, on a store filled by saves             *)

\* two entries the handler accepts, one whose duration the table cannot
\* display, and one it rejects
BrowseForms ==
    {BaseForm,
     [BaseForm EXCEPT !.activity = T_walking, !.avg = <<"8", ":", "3", "0">>,
                      !.date = <<"2", "0", "2", "6", "-", "0", "1", "-", "1", "2">>, !.distance = <<"8", ".", "5">>],
     [BaseForm EXCEPT !.duration = <<"i", "n", "f">>],
     [BaseForm EXCEPT !.distance = <<"0">>]}

SaveForBrowse == \E f \in BrowseForms : SaveStep(f)

NextBrowse ==
    \/ SaveForBrowse
    \/ ClearForm
    \/ TypeFilters
    \/ ApplyFilters
    \/ ResetFilters
    \/ DeleteSelected
    \/ ExportCsv
    \/ ShowCharts

SpecBrowse == Init /\ [][NextBrowse]_vars

----------------------------------------------------------------------------
(* show_charts on a store filled by saves                                  *)

\* entries of three activities, in January and February, one of them with
\* the month and day on one digit
ChartForms ==
    {BaseForm,
     [BaseForm EXCEPT !.activity = T_walking, !.avg = <<"8", ":", "3", "0">>,
                      !.date = <<"2", "0", "2", "6", "-", "0", "1", "-", "1", "2">>, !.distance = <<"8", ".", "5">>,
                      !.calories = <<"4", "3", "0", ".", "9">>],
     [BaseForm EXCEPT !.activity = T_hiking, !.avg = <<"1", "2", ":", "1", "5">>,
                      !.date = <<"2", "0", "2", "6", "-", "0", "2", "-", "0", "3">>, !.distance = <<"1", "0", ".", "2", "5">>],
     [BaseForm EXCEPT !.date = <<"2", "0", "2", "6", "-", "0", "2", "-", "2", "0">>, !.distance = <<"7", ".", "7", "5">>,
                      !.calories = <<"0">>],
     [BaseForm EXCEPT !.activity = T_walking, !.avg = <<"8", ":", "3", "0">>,
                      !.date = <<"2", "0", "2", "6", "-", "1", "-", "5">>]}

SaveForCharts == \E f \in ChartForms : SaveStep(f)

NextCharts == SaveForCharts \/ TypeFilters \/ ShowCharts

SpecCharts == Init /\ [][NextCharts]_vars

----------------------------------------------------------------------------
(* A function called on its own: the argument is drawn at the start and    *)
(* the outcome of the call recorded                                        *)

InitPure(inputs) ==
    /\ store = <<>>
    /\ nextId = 1
    /\ filterVars = NoFilters
    /\ tree = <<>>
    /\ selection = {}
    /\ status = 0
    /\ tab = "add"
    /\ dialog = <<>>
    /\ form = ClearedForm
    /\ op = "none"
    /\ args \in inputs
    /\ ret = Ok(Zero)

Call(name, result) ==
    /\ op = "none"
    /\ op' = name
    /\ ret' = result
    /\ UNCHANGED <<store, nextId, filterVars, tree, selection, status, tab,
                   dialog, form, args>>

----------------------------------------------------------------------------
(* The add form alone: every combination of field texts is in the form     *)
(* when "Save activity" or "Clear form" is pressed                         *)

InitForm ==
    /\ store = <<>>
    /\ nextId = 1
    /\ filterVars = NoFilters
    /\ tree = <<>>
    /\ selection = {}
    /\ status = 0
    /\ tab = "add"
    /\ dialog = <<>>
    /\ form \in AllForms
    /\ op = "__init__"
    /\ args = <<>>
    /\ ret = Ok(Zero)

SaveTyped == SaveStep(form)

NextSave == SaveTyped \/ ClearForm

SpecSave == InitForm /\ [][NextSave]_vars

----------------------------------------------------------------------------
(* fetch_activities on a store filled by saves                             *)

FetchForms ==
    {BaseForm,
     [BaseForm EXCEPT !.activity = T_walking, !.avg = <<"8", ":", "3", "0">>,
                      !.date = <<"2", "0", "2", "6", "-", "1", "-", "5">>, !.distance = <<"8", ".", "5">>],
     [BaseForm EXCEPT !.activity = T_walking, !.avg = <<"8", ":", "3", "0">>,
                      !.date = <<"2", "0", "2", "6", "-", "0", "1", "-", "1", "2">>, !.distance = <<"8", ".", "5">>],
     [BaseForm EXCEPT !.activity = T_hiking, !.avg = <<"8", ":", "3", "0">>,
                      !.distance = <<"8", ".", "5">>]}

FilterActivityTexts ==
    {<<"a", "l", "l">>,
     <<" ", "C", "y", "c", "l", "i", "n", "g">>,
     <<"w", "a", "l", "k", "i", "n", "g">>,
     <<"r", "u", "n", "n", "i", "n", "g">>}

FilterFromTexts ==
    {<<>>,
     <<"2", "0", "2", "6", "-", "0", "1", "-", "0", "6">>}

FilterToTexts ==
    {<<>>,
     <<"2", "0", "2", "6", "-", "0", "1", "-", "1", "1">>}

FilterMinTexts ==
    {<<>>,
     <<"1", "0">>}

FilterMaxTexts ==
    {<<>>,
     <<"4", "0">>}

FetchFilters ==
    [activity : FilterActivityTexts, from : FilterFromTexts, to : FilterToTexts,
     min : FilterMinTexts, max : FilterMaxTexts]

SaveForFetch == \E f \in FetchForms : SaveStep(f)

FetchActivities ==
    \E fv \in FetchFilters :
        /\ op' = "fetch_activities"
        /\ args' = fv
        /\ ret' = fetch_activities(store, fv.activity, fv.from, fv.to, fv.min, fv.max)
        /\ UNCHANGED <<store, nextId, filterVars, tree, selection, status, tab,
                       dialog, form>>

NextFetch == SaveForFetch \/ FetchActivities

SpecFetch == Init /\ [][NextFetch]_vars

----------------------------------------------------------------------------
(* build_activities_query on every combination of filter texts             *)

BuildActivityTexts ==
    {<<"a", "l", "l">>,
     <<>>,
     <<" ", "C", "y", "c", "l", "i", "n", "g", " ">>,
     <<"A", "L", "L">>,
     <<"r", "u", "n", "n", "i", "n", "g">>}

BuildDateTexts ==
    {<<>>,
     <<" ", " ">>,
     <<"2", "0", "2", "6", "-", "0", "1", "-", "0", "1">>,
     <<"2", "0", "2", "6", "-", "0", "1", "-", "3", "1">>,
     <<"2", "0", "2", "6", "/", "0", "1", "/", "0", "1">>,
     <<"2", "0", "2", "6", "-", "1", "-", "5">>,
     <<"2", "0", "2", "6", "-", "0", "2", "-", "3", "0">>}

BuildDistanceTexts ==
    {<<>>,
     <<"1", "0">>,
     <<" ", "8", "0", " ">>,
     <<"t", "e", "n">>,
     <<"n", "a", "n">>}

BuildInputs ==
    [activity : BuildActivityTexts, from : BuildDateTexts, to : BuildDateTexts,
     min : BuildDistanceTexts, max : BuildDistanceTexts]

InitBuild == InitPure(BuildInputs)

BuildQuery ==
    Call("build_activities_query",
         build_activities_query(args.activity, args.from, args.to,
                                args.min, args.max))

NextBuild == BuildQuery

SpecBuild == InitBuild /\ [][NextBuild]_vars

----------------------------------------------------------------------------
(* The unit parsers on texts of one to MaxSegments segments                *)

SegmentTexts ==
    {<<"1">>,
     <<"3", "0", " ">>,
     <<" ", "2">>,
     <<"x">>,
     <<>>,
     <<"7", ".", "7", "5">>}

RECURSIVE JoinColon(_)
JoinColon(parts) ==
    IF Len(parts) = 1 THEN parts[1]
    ELSE parts[1] \o <<":">> \o JoinColon(Tail(parts))

ParseInputs ==
    UNION {{JoinColon(p) : p \in [1..n -> SegmentTexts]} : n \in 1..MaxSegments}

InitParse == InitPure(ParseInputs)

ParseDuration == Call("parse_duration_to_minutes", parse_duration_to_minutes(args))

ParsePace == Call("parse_pace_to_min_per_km", parse_pace_to_min_per_km(args))

NextParse == ParseDuration \/ ParsePace

SpecParse == InitParse /\ [][NextParse]_vars

----------------------------------------------------------------------------
(* The duration display on 0, 0.1, 0.2, ... minutes                        *)

FormatInputs == {Rat(t, 10) : t \in 0..MaxTenths}

InitFormat == InitPure(FormatInputs)

FormatMinutes == Call("format_minutes_to_hhmm", format_minutes_to_hhmm(args))

NextFormat == FormatMinutes

SpecFormat == InitFormat /\ [][NextFormat]_vars

----------------------------------------------------------------------------
(* Properties of the query builder                                         *)

\* a text in the strict form YYYY-MM-DD naming a day of the calendar
IsIsoDate(t) ==
    /\ Len(t) = 10
    /\ \A i \in {1, 2, 3, 4, 6, 7, 9, 10} : IsDigit(t[i])
    /\ t[5] = "-"
    /\ t[8] = "-"
    /\ LET y == DigitsVal(SubSeq(t, 1, 4))
           m == DigitsVal(SubSeq(t, 6, 7))
           d == DigitsVal(SubSeq(t, 9, 10))
       IN  y >= 1 /\ m \in 1..12 /\ d >= 1 /\ d <= DaysInMonth(y, m)

Blank(t) == \A i \in 1..Len(t) : t[i] = " "

TypeFilterActive(t) == ~Blank(t) /\ Lower(Strip(t)) # T_all

ExpectedParams(fv) ==
    (IF TypeFilterActive(fv.activity)
     THEN <<[t |-> "text", s |-> Lower(Strip(fv.activity)), x |-> Zero]>> ELSE <<>>)
    \o (IF Blank(fv.from) THEN <<>>
        ELSE <<[t |-> "text", s |-> Strip(fv.from), x |-> Zero]>>)
    \o (IF Blank(fv.to) THEN <<>>
        ELSE <<[t |-> "text", s |-> Strip(fv.to), x |-> Zero]>>)
    \o (IF Blank(fv.min) THEN <<>>
        ELSE <<[t |-> "real", s |-> NoText, x |-> ParseFloat(fv.min).v]>>)
    \o (IF Blank(fv.max) THEN <<>>
        ELSE <<[t |-> "real", s |-> NoText, x |-> ParseFloat(fv.max).v]>>)

ActiveFilterCount(fv) ==
    Cardinality({k \in {"from", "to", "min", "max"} : ~Blank(fv[k])})
    + (IF TypeFilterActive(fv.activity) THEN 1 ELSE 0)

FiveFilters ==
    [activity |-> <<" ", "C", "y", "c", "l", "i", "n", "g", " ">>, from |-> <<"2", "0", "2", "6", "-", "0", "1", "-", "0", "1">>, to |-> <<"2", "0", "2", "6", "-", "0", "1", "-", "3", "1">>,
     min |-> <<"1", "0">>, max |-> <<" ", "8", "0", " ">>]

\* C1: whenever build_activities_query returns, its parameter list has one
\* entry per filter that is not blank (an activity of "all" in any case
\* counting as no filter), in the order activity, from date, to date, min
\* distance, max distance, the activity trimmed and lower-cased and the
\* distances as numbers; " Cycling ", 2026-01-01, 2026-01-31, "10", " 80 "
\* gives cycling, 2026-01-01, 2026-01-31, 10, 80.
C1_ParamsFollowFilters ==
    (op = "build_activities_query" /\ ~Raised(ret)) =>
        /\ Len(ret.v.params) = ActiveFilterCount(args)
        /\ ret.v.params = ExpectedParams(args)
        /\ args = FiveFilters =>
              ret.v.params =
                  <<[t |-> "text", s |-> T_cycling, x |-> Zero],
                    [t |-> "text", s |-> <<"2", "0", "2", "6", "-", "0", "1", "-", "0", "1">>, x |-> Zero],
                    [t |-> "text", s |-> <<"2", "0", "2", "6", "-", "0", "1", "-", "3", "1">>, x |-> Zero],
                    [t |-> "real", s |-> NoText, x |-> [k |-> "fin", n |-> 10, d |-> 1]],
                    [t |-> "real", s |-> NoText, x |-> [k |-> "fin", n |-> 80, d |-> 1]]>>

C1_Witness ==
    /\ op = "build_activities_query"
    /\ args = FiveFilters
    /\ ~Raised(ret)
    /\ Len(ret.v.params) = 5

BadDateFilter(t) == ~Blank(t) /\ ~IsIsoDate(Strip(t))

BadDistanceFilter(t) == ~Blank(t) /\ Raised(ParseFloat(t))

\* C8: build_activities_query called with a from date or a to date that is
\* not blank and not a YYYY-MM-DD calendar date raises a ValueError and
\* returns no query, whatever the other filters; so it does with a min or
\* max distance that is not a number.
C8_BadFilterRaises ==
    (/\ op = "build_activities_query"
     /\ \/ BadDateFilter(args.from)
        \/ BadDateFilter(args.to)
        \/ BadDistanceFilter(args.min)
        \/ BadDistanceFilter(args.max))
    => ret.exc = "ValueError"

----------------------------------------------------------------------------
(* Properties of the unit parsers and of the duration display              *)

SegmentCount(t) == 1 + Cardinality({i \in 1..Len(t) : t[i] = ":"})

IntSegments(t) == \A i \in 1..Len(SplitColon(t)) : ~Raised(ParseInt(SplitColon(t)[i]))

IntSegment(t, i) == ParseInt(SplitColon(t)[i]).v

\* C9: the unit parsers go by the number of ':'-separated segments of the
\* trimmed text.  parse_duration_to_minutes gives the decimal value of one
\* segment, H*60+M for two, H*60+M+S/60 for three, and raises "Invalid
\* duration format" for four or more; parse_pace_to_min_per_km gives the
\* decimal value of one segment, M+S/60 for two, and raises "Invalid pace
\* format" for three or more.
C9_ParsersGoBySegmentCount ==
    LET t == Strip(args)
        n == SegmentCount(t)
    IN  /\ op = "parse_duration_to_minutes" =>
            /\ n = 1 => ret = ParseFloat(t)
            /\ (n = 2 /\ IntSegments(t)) =>
                   ret = Ok([k |-> "fin",
                             n |-> IntSegment(t, 1) * 60 + IntSegment(t, 2),
                             d |-> 1])
            /\ (n = 3 /\ IntSegments(t)) =>
                   /\ ~Raised(ret)
                   /\ ret.v.k = "fin"
                   /\ ret.v.n * 60 =
                        ret.v.d * ((IntSegment(t, 1) * 60 + IntSegment(t, 2)) * 60
                                   + IntSegment(t, 3))
            /\ (n \in {2, 3} /\ ~IntSegments(t)) => ret.exc = "ValueError"
            /\ n >= 4 => /\ ret.exc = "ValueError"
                         /\ ret.msg = "Invalid duration format"
            /\ args = <<"1", ":", "3", "0", " ">> => ret.v = [k |-> "fin", n |-> 90, d |-> 1]
        /\ op = "parse_pace_to_min_per_km" =>
            /\ n = 1 => ret = ParseFloat(t)
            /\ (n = 2 /\ IntSegments(t)) =>
                   /\ ~Raised(ret)
                   /\ ret.v.k = "fin"
                   /\ ret.v.n * 60 =
                        ret.v.d * (IntSegment(t, 1) * 60 + IntSegment(t, 2))
            /\ (n = 2 /\ ~IntSegments(t)) => ret.exc = "ValueError"
            /\ n >= 3 => /\ ret.exc = "ValueError"
                         /\ ret.msg = "Invalid pace format"
            /\ args = <<"7", ".", "7", "5">> => ret.v = [k |-> "fin", n |-> 31, d |-> 4]

C9_Witness ==
    /\ op = "parse_duration_to_minutes"
    /\ args = <<"1", ":", "3", "0", " ", ":", " ", "2">>
    /\ ret.exc = "none"
    /\ ret.v = [k |-> "fin", n |-> 2701, d |-> 30]

TwoDigits(n) == <<DigitChars[(n \div 10) + 1], DigitChars[(n % 10) + 1]>>

\* C10: format_minutes_to_hhmm of a total >= 0 is HH:MM with HH the whole
\* hours of the total and MM an integer within half a minute of what is
\* left, both on two digits; MM is 60 when the rest rounds up to the hour,
\* and the hours are not increased.  90 gives 01:30 and 125.4 gives 02:05.
C10_HoursAndRoundedMinutes ==
    op = "format_minutes_to_hhmm" =>
        /\ \E h \in 0..99, m \in 0..60 :
              /\ ret = Ok(TwoDigits(h) \o <<":">> \o TwoDigits(m))
              /\ 60 * h * args.d <= args.n
              /\ args.n < 60 * (h + 1) * args.d
              /\ 2 * Abs(m * args.d - (args.n - 60 * h * args.d)) <= args.d
        /\ args = [k |-> "fin", n |-> 90, d |-> 1] =>
              ret.v = <<"0", "1", ":", "3", "0">>
        /\ args = [k |-> "fin", n |-> 627, d |-> 5] =>
              ret.v = <<"0", "2", ":", "0", "5">>

C10_Witness ==
    /\ op = "format_minutes_to_hhmm"
    /\ args = [k |-> "fin", n |-> 298, d |-> 5]
    /\ ret.v = <<"0", "0", ":", "6", "0">>

----------------------------------------------------------------------------
(* Properties of the save handler                                          *)

Passed == Ok(Zero)

DateStep(f) == validate_date(Strip(f.date))

TypeStep(f) ==
    IF Lower(Strip(f.activity)) \in {T_cycling, T_hiking, T_walking} THEN Passed
    ELSE Raise("ValueError", "Invalid activity", NoText)

DistanceParse(f) ==
    IF Raised(ParseFloat(Strip(f.distance))) THEN ParseFloat(Strip(f.distance))
    ELSE Passed

DistanceRange(f) ==
    IF ~Raised(DistanceParse(f)) /\ ~NumLT(Zero, ParseFloat(Strip(f.distance)).v)
          /\ ~IsNaN(ParseFloat(Strip(f.distance)).v)
    THEN Raise("ValueError", "Distance must be greater than 0", NoText)
    ELSE Passed

DurationParse(f) ==
    IF Raised(parse_duration_to_minutes(f.duration))
    THEN parse_duration_to_minutes(f.duration)
    ELSE Passed

DurationRange(f) ==
    IF ~Raised(DurationParse(f)) /\ ~NumLT(Zero, parse_duration_to_minutes(f.duration).v)
          /\ ~IsNaN(parse_duration_to_minutes(f.duration).v)
    THEN Raise("ValueError", "Duration must be greater than 0", NoText)
    ELSE Passed

CaloriesParse(f) ==
    LET x == ParseFloat(Strip(f.calories))
    IN  IF Raised(x) THEN x
        ELSE IF Raised(IntOfFloat(x.v)) THEN IntOfFloat(x.v)
        ELSE Passed

CaloriesRange(f) ==
    IF ~Raised(CaloriesParse(f)) /\ IntOfFloat(ParseFloat(Strip(f.calories)).v).v < 0
    THEN Raise("ValueError", "Calories cannot be negative", NoText)
    ELSE Passed

MetricStep(f) ==
    LET cycling == Lower(Strip(f.activity)) = T_cycling
        x == IF cycling THEN ParseFloat(Strip(f.avg))
             ELSE parse_pace_to_min_per_km(Strip(f.avg))
    IN  IF Raised(x) THEN x
        ELSE IF ~NumLT(Zero, x.v) /\ ~IsNaN(x.v)
        THEN Raise("ValueError",
                   IF cycling THEN "Average speed must be greater than 0"
                   ELSE "Average pace must be greater than 0", NoText)
        ELSE Passed

\* the first exception in a list of outcomes, Passed when there is none
RECURSIVE FirstFailure(_)
FirstFailure(steps) ==
    IF steps = <<>> THEN Passed
    ELSE IF Raised(steps[1]) THEN steps[1]
    ELSE FirstFailure(Tail(steps))

Both(a, b) == IF Raised(a) THEN a ELSE b

\* the six fields in the order date, activity, distance, duration, calories,
\* average, each parsed and then checked
FieldOrder(f) ==
    <<DateStep(f), TypeStep(f), Both(DistanceParse(f), DistanceRange(f)),
      Both(DurationParse(f), DurationRange(f)),
      Both(CaloriesParse(f), CaloriesRange(f)), MetricStep(f)>>

\* the order of the handler: the three numeric fields are parsed, then the
\* date, the activity and the three ranges are checked, then the average
HandlerOrder(f) ==
    <<DistanceParse(f), DurationParse(f), CaloriesParse(f), DateStep(f),
      TypeStep(f), DistanceRange(f), DurationRange(f), CaloriesRange(f),
      MetricStep(f)>>

\* C4 as claimed: a save that fails reports the failure of the earliest
\* failing field in the order date, activity, distance, duration, calories,
\* average.
C4_FirstFailureInFieldOrder ==
    (op = "save_activity" /\ Raised(FirstFailure(FieldOrder(args))))
    => ret = FirstFailure(FieldOrder(args))

\* C4 as the handler does it: distance, duration and calories are parsed
\* first, in that order; then the date, the activity, distance > 0,
\* duration > 0 and calories >= 0 are checked; the average comes last.  The
\* first failure in that order is the one raised, and a ValueError is shown
\* in the "Validation error" box.
C4_FirstFailureInHandlerOrder ==
    (op = "save_activity" /\ Raised(FirstFailure(HandlerOrder(args))))
    => /\ ret = FirstFailure(HandlerOrder(args))
       /\ ret.exc = "ValueError" =>
             dialog = <<[kind |-> "showerror", title |-> "Validation error",
                         msg |-> ret.msg, about |-> ret.about]>>

C4_Witness ==
    /\ op = "save_activity"
    /\ Raised(DateStep(args))
    /\ Raised(DistanceParse(args))
    /\ ret = DistanceParse(args)
    /\ ret.msg = "could not convert string to float: {!r}"

\* a field that does not parse or is out of its range: distance, duration
\* and average must be greater than 0 and calories 0 or more
FieldFails(f) ==
    \/ Raised(DateStep(f))
    \/ Raised(TypeStep(f))
    \/ Raised(DistanceParse(f)) \/ ~NumLT(Zero, ParseFloat(Strip(f.distance)).v)
    \/ Raised(DurationParse(f))
       \/ ~NumLT(Zero, parse_duration_to_minutes(f.duration).v)
    \/ Raised(CaloriesParse(f)) \/ Raised(CaloriesRange(f))
    \/ Raised(MetricStep(f))
       \/ ~NumLT(Zero, (IF Lower(Strip(f.activity)) = T_cycling
                        THEN ParseFloat(Strip(f.avg))
                        ELSE parse_pace_to_min_per_km(Strip(f.avg))).v)

\* C5: a save in which a field fails parsing or validation inserts nothing:
\* the stored records after it are the stored records before it.
C5_FailedSaveInsertsNothing ==
    [][(op' = "save_activity" /\ FieldFails(args')) => store' = store]_vars

C5_Witness ==
    /\ op = "save_activity"
    /\ FieldFails(args)
    /\ Len(store) = 1
    /\ ret.exc = "IntegrityError"

\* C6: every stored record has an activity among cycling, hiking and
\* walking, distance > 0, total minutes > 0, calories >= 0, average > 0, and
\* the unit km/h exactly when the activity is cycling, min/km otherwise.
C6_StoredRecordsWellFormed ==
    \A i \in 1..Len(store) :
        LET r == store[i]
        IN  /\ r.activity_type \in {T_cycling, T_hiking, T_walking}
            /\ NumLT(Zero, r.distance_km)
            /\ NumLT(Zero, r.total_minutes)
            /\ r.calories >= 0
            /\ NumLT(Zero, r.avg_metric_value)
            /\ r.avg_metric_unit = "km/h" <=> r.activity_type = T_cycling
            /\ r.avg_metric_unit = "min/km" <=> r.activity_type # T_cycling

C6_Witness ==
    /\ op = "delete_selected"
    /\ Len(store) = 1
    /\ store[1].id = 2
    /\ store[1].activity_type = T_walking
    /\ store[1].avg_metric_unit = "min/km"

\* C7: the activity date of every stored record is a YYYY-MM-DD text, month
\* and day on two digits, naming a day of the calendar.
C7_StoredDatesAreIso ==
    \A i \in 1..Len(store) : IsIsoDate(store[i].activity_date)

----------------------------------------------------------------------------
(* Properties of fetch_activities                                          *)

\* the day a stored date names, as a number that orders the calendar
DateKey(t) == DateFields(t).y * 10000 + DateFields(t).m * 100 + DateFields(t).d

ValidFilters(fv) ==
    /\ Blank(fv.from) \/ IsIsoDate(Strip(fv.from))
    /\ Blank(fv.to) \/ IsIsoDate(Strip(fv.to))
    /\ Blank(fv.min) \/ ~Raised(ParseFloat(fv.min))
    /\ Blank(fv.max) \/ ~Raised(ParseFloat(fv.max))

Matches(r, fv) ==
    /\ TypeFilterActive(fv.activity) => r.activity_type = Lower(Strip(fv.activity))
    /\ ~Blank(fv.from) => DateKey(r.activity_date) >= DateKey(Strip(fv.from))
    /\ ~Blank(fv.to) => DateKey(r.activity_date) <= DateKey(Strip(fv.to))
    /\ ~Blank(fv.min) => ~NumLT(r.distance_km, ParseFloat(fv.min).v)
    /\ ~Blank(fv.max) => ~NumLT(ParseFloat(fv.max).v, r.distance_km)

\* C2: fetch_activities with valid filters returns exactly the stored
\* records that satisfy every active filter: the activity equal to the
\* trimmed, lower-cased filter, the date on or after the from date and on
\* or before the to date, the distance between min and max.
C2_FetchReturnsMatchingRecords ==
    (op = "fetch_activities" /\ ValidFilters(args)) =>
        /\ ret.exc = "none"
        /\ Range(ret.v) = {r \in Range(store) : Matches(r, args)}
        /\ Len(ret.v) = Cardinality(Range(ret.v))

\* C3: the rows of a query come most recent calendar date first, and on
\* one date the higher id first.
C3_RowsByDateThenIdDescending ==
    (op = "fetch_activities" /\ ret.exc = "none") =>
        \A i \in 1..Len(ret.v), j \in 1..Len(ret.v) :
            i < j =>
                \/ DateKey(ret.v[i].activity_date) > DateKey(ret.v[j].activity_date)
                \/ /\ DateKey(ret.v[i].activity_date) = DateKey(ret.v[j].activity_date)
                   /\ ret.v[i].id > ret.v[j].id

----------------------------------------------------------------------------
(* Properties of the aggregates of show_charts                             *)

\* show_charts has drawn its charts: it found rows and matplotlib
ChartsDrawn == op = "show_charts" /\ ret.exc = "none" /\ dialog = <<>>

\* the sum of the distances of a set of records
RECURSIVE DistanceSum(_)
DistanceSum(recs) ==
    IF recs = {} THEN Zero
    ELSE LET r == CHOOSE x \in recs : TRUE
         IN  NumAdd(r.distance_km, DistanceSum(recs \ {r}))

\* the sum of the calories of a set of records
RECURSIVE CaloriesSum(_)
CaloriesSum(recs) ==
    IF recs = {} THEN 0
    ELSE LET r == CHOOSE x \in recs : TRUE
         IN  r.calories + CaloriesSum(recs \ {r})

\* the records the filters typed when the charts were asked for select
FilteredRecords == Range(fetch_filtered_rows(store, args.filters).v)

First7(t) == SubSeq(t, 1, 7)

\* C11: the aggregates drawn have, for each of cycling, hiking and walking,
\* the sum of the distances and the sum of the calories of the filtered
\* records of that activity (zero when there is none), and for each
\* seven-character prefix of the date of a filtered record, and for no
\* other key, the sum of the distances of the records with that prefix.
C11_AggregatesAreSums ==
    ChartsDrawn =>
        /\ DOMAIN ret.v.by_activity_distance = {T_cycling, T_hiking, T_walking}
        /\ DOMAIN ret.v.by_activity_calories = {T_cycling, T_hiking, T_walking}
        /\ \A a \in {T_cycling, T_hiking, T_walking} :
               /\ ret.v.by_activity_distance[a]
                     = DistanceSum({r \in FilteredRecords : r.activity_type = a})
               /\ ret.v.by_activity_calories[a]
                     = CaloriesSum({r \in FilteredRecords : r.activity_type = a})
        /\ DOMAIN ret.v.by_month_distance
              = {First7(r.activity_date) : r \in FilteredRecords}
        /\ \A k \in DOMAIN ret.v.by_month_distance :
               ret.v.by_month_distance[k]
                 = DistanceSum({r \in FilteredRecords : First7(r.activity_date) = k})

\* 42 km of cycling and 8.5 km of walking in January 2026, no hiking
C11_Witness ==
    /\ ChartsDrawn
    /\ ret.v.by_activity_distance[T_cycling] = FromInt(42)
    /\ ret.v.by_activity_distance[T_hiking] = Zero
    /\ ret.v.by_activity_distance[T_walking] = Rat(17, 2)
    /\ ret.v.by_activity_calories[T_walking] = 430
    /\ DOMAIN ret.v.by_month_distance = {<<"2", "0", "2", "6", "-", "0", "1">>}
    /\ ret.v.by_month_distance[<<"2", "0", "2", "6", "-", "0", "1">>] = Rat(101, 2)

----------------------------------------------------------------------------
(* Properties of the stored records across the handlers                    *)

Ids(table) == {table[i].id : i \in 1..Len(table)}

\* the ids of the Treeview rows selected when "Delete selected" was pressed
\* and the confirmation answered with yes; none otherwise.  Typing in the
\* filter fields is the one step that leaves op as it was, and it changes
\* filterVars.
DeletedIds(treeBefore, opAfter, argsAfter) ==
    IF opAfter = "delete_selected" /\ argsAfter[2]
    THEN {treeBefore[i].id : i \in argsAfter[1]}
    ELSE {}

\* C12: in every step of the application a stored record that is still
\* stored afterwards is unchanged, the ids of the stored records are pairwise
\* distinct, a delete removes exactly the stored records with the selected
\* ids, and filter, export and chart operations leave the store as it is.
C12_RecordsChangeOnlyByDelete ==
    [][/\ \A i \in 1..Len(store), j \in 1..Len(store') :
              store[i].id = store'[j].id => store[i] = store'[j]
       /\ Cardinality(Ids(store')) = Len(store')
       /\ (op' = "delete_selected" /\ filterVars' = filterVars) =>
              /\ Range(store') = {r \in Range(store) :
                                    r.id \notin DeletedIds(tree, op', args')}
              /\ Len(store') = Cardinality(Range(store'))
       /\ op' \in {"clear_form", "refresh_table", "reset_filters",
                    "export_filtered_to_csv", "show_charts"} => store' = store
       /\ filterVars' # filterVars => store' = store]_vars

\* the second of two records has been deleted and the first is left
C12_Witness ==
    /\ op = "delete_selected"
    /\ args[2]
    /\ args[1] # {}
    /\ nextId = 3
    /\ Len(store) = 1
    /\ store[1].id = 1

----------------------------------------------------------------------------
(* Properties of the status bar                                            *)

\* C13: after a save, a delete, "Apply filters" or "Reset" the record count
\* written in the status bar is the number of stored records, whatever the
\* filter fields hold.
C13_StatusBarCountsStore ==
    op \in {"save_activity", "delete_selected", "refresh_table", "reset_filters"}
        => status = Len(store)

====
